---- MODULE Spec2Model ----
(***************************************************************************)
(* HydrateMate (src/App.js): the reminder planner and scheduler inside     *)
(* scheduleReminders / cancelScheduledNotificationsAndClearStorage, the    *)
(* AppProvider reschedule effect that calls them, and the intake ledger    *)
(* (addIntake / resetToday).                                               *)
(*                                                                         *)
(* Four specifications share the module:                                   *)
(*   SpecPlan    the slot computation of scheduleReminders (lines 113-128) *)
(*               applied to inputs drawn from bounded sets;                *)
(*   Spec        the reschedule effect and the scheduler, one step per     *)
(*               await, against the notification platform and the store;   *)
(*   SpecIntake  the intake ledger as the provider's React state.          *)
(*   SpecOverlap the runs of the reschedule effect on their own, queued by *)
(*               changes of user and of the Reminders switch.              *)
(***************************************************************************)
EXTENDS Integers, Sequences, FiniteSets, TLC

VARIABLES
    \* ---- planner harness (SpecPlan)
    pUser,        \* the user argument of scheduleReminders
    pSettings,    \* the settings argument of scheduleReminders
    pTimes,       \* the local `times` after line 128
    pDone,        \* whether lines 113-128 have run
    \* ---- provider state, platform and store (Spec)
    user,         \* useState(null), line 160
    settings,     \* useState({...}), line 162
    isDevice,     \* Constants.isDevice
    perm,         \* the platform's notification permission status
    registered,   \* identifiers of the triggers registered with the platform
    trigSlot,     \* trigSlot[id]: the hour/minute trigger id was registered with
    stored,       \* the value under STORAGE_KEYS.NOTIF_IDS
    calls,        \* the runs of the reschedule effect, in the order they start
    clearing,     \* clearAllData is suspended at its await (line 478)
    \* ---- intake ledger (SpecIntake)
    intakeLog,    \* useState([]), line 161: an array of references to records
    recs,         \* the record objects { date, intake } ever created
    today,        \* the calendar date formatDate() returns
    alerts,       \* the open "Quick add" alerts: the intakeLog each one's
                  \* onPress closed over (line 353)
    lastOp,       \* the latest addIntake / resetToday call and what it did
    prevOp,       \* the call before it
    nOps,         \* how many taps the ledger has handled
    added         \* the amounts addIntake was called with, with a profile
                  \* present, on today's date since the last resetToday

pvars == <<pUser, pSettings, pTimes, pDone>>
svars == <<user, settings, isDevice, perm, registered, trigSlot, stored, calls, clearing>>
ivars == <<intakeLog, recs, today, alerts, lastOp, prevOp, nOps, added>>
vars == <<pvars, svars, ivars>>

(***************************************************************************)
(* Text.  A JS string is a sequence of one-character strings, so that      *)
(* split(':').map(Number) is computed, not assumed.                        *)
(***************************************************************************)
Digits == <<"0", "1", "2", "3", "4", "5", "6", "7", "8", "9">>

DigitVal(c) == CHOOSE d \in 0..9 : Digits[d + 1] = c

EmptyStr == <<>>

\* "HH:MM" for an hour and a minute, as the TextInput / defaults hold it.
TimeStr(h, m) ==
    <<Digits[(h \div 10) + 1], Digits[(h % 10) + 1], ":",
      Digits[(m \div 10) + 1], Digits[(m % 10) + 1]>>

\* undefined (a destructured element past the end of the array)
Undefined == -1

\* String.prototype.split(':')
RECURSIVE SplitFrom(_, _, _)
SplitFrom(s, i, cur) ==
    IF i > Len(s) THEN <<cur>>
    ELSE IF s[i] = ":" THEN <<cur>> \o SplitFrom(s, i + 1, <<>>)
    ELSE SplitFrom(s, i + 1, Append(cur, s[i]))

SplitColon(s) == SplitFrom(s, 1, <<>>)

\* Number(part) for a string of decimal digits; Number('') is 0.
RECURSIVE NumberFrom(_, _, _)
NumberFrom(s, i, acc) ==
    IF i > Len(s) THEN acc
    ELSE NumberFrom(s, i + 1, 10 * acc + DigitVal(s[i]))

Number(s) == NumberFrom(s, 1, 0)

\* const [a, b] = str.split(':').map(Number)
Destructure(parts, i) ==
    IF i <= Len(parts) THEN Number(parts[i]) ELSE Undefined

\* x || d on numbers: 0 and undefined are falsy
OrNum(x, d) == IF x = 0 \/ x = Undefined THEN d ELSE x

\* a || b on strings: the empty (or missing) string is falsy
OrStr(a, b) == IF a = EmptyStr THEN b ELSE a

Max(a, b) == IF a >= b THEN a ELSE b

(***************************************************************************)
(* scheduleReminders, lines 113-128: the slot computation.                 *)
(***************************************************************************)
MinInterval == 15
DefaultInterval == 120
DefaultWakeHour == 7
DefaultBedHour == 23
DayMinutes == 1440

DefaultWake == TimeStr(7, 0)
DefaultBed == TimeStr(23, 0)

\* A missing reminderIntervalMins
Absent == -1

NoSlots == <<>>

\* line 113 / 114: the text that is split
WakeText(u, st) == OrStr(u.wakeTime, OrStr(st.wakeTime, DefaultWake))
BedText(u, st) == OrStr(u.bedTime, OrStr(st.bedTime, DefaultBed))

\* line 115
IntervalOrDefault(raw) == IF raw = 0 \/ raw = Absent THEN DefaultInterval ELSE raw
Interval(st) == Max(MinInterval, IntervalOrDefault(st.reminderIntervalMins))

\* line 117
MinutesOfWake(h, m) == OrNum(h, DefaultWakeHour) * 60 + OrNum(m, 0)
WakeMinutes(u, st) ==
    LET parts == SplitColon(WakeText(u, st))
    IN  MinutesOfWake(Destructure(parts, 1), Destructure(parts, 2))

\* line 118
MinutesOfBed(h, m) == OrNum(h, DefaultBedHour) * 60 + OrNum(m, 0)
RawBedMinutes(u, st) ==
    LET parts == SplitColon(BedText(u, st))
    IN  MinutesOfBed(Destructure(parts, 1), Destructure(parts, 2))

\* line 119
BedMinutes(u, st) ==
    LET b == RawBedMinutes(u, st)
    IN  IF b <= WakeMinutes(u, st) THEN b + 24 * 60 ELSE b

\* lines 123-126
SlotAt(t) ==
    LET minutesOfDay == t % (24 * 60)
    IN  [hour |-> minutesOfDay \div 60, minute |-> minutesOfDay % 60]

\* lines 121-127: for (t = wakeMinutes; t <= bedMinutes; t += interval).
\* The loop visits t = wake + k*interval for k = 0, 1, ... while t <= bed;
\* a window is at most two days and the step at least MinInterval, so k
\* stays within MaxIterations.
MaxIterations == (2 * DayMinutes) \div MinInterval

PlanLoop(wake, bed, interval) ==
    LET visited == {k \in 0..MaxIterations : wake + k * interval <= bed}
    IN  [i \in 1..Cardinality(visited) |-> SlotAt(wake + (i - 1) * interval)]

\* lines 113-128
PlanTimes(u, st) ==
    LET times == PlanLoop(WakeMinutes(u, st), BedMinutes(u, st),
                          Interval(st))
        wparts == SplitColon(WakeText(u, st))
    IN  IF Len(times) = 0
        THEN <<[hour |-> Destructure(wparts, 1), minute |-> Destructure(wparts, 2)]>>
        ELSE times

(***************************************************************************)
(* The provider state, the notification platform and the store.            *)
(*                                                                         *)
(* A run of the effect advances one await at a time, so runs interleave at *)
(* exactly the points where the code suspends.  The platform may reject a  *)
(* cancel (line 98) or a registration (line 138); a cancel that resolves   *)
(* takes effect at the step that issues it.  AsyncStorage reads and writes *)
(* succeed here: the catch paths of loadJson and saveJson (lines 33, 37)   *)
(* are not exercised.                                                      *)
(***************************************************************************)
MaxCalls == 3

Calls == 1..MaxCalls

\* useState(null): no user profile
NoUser == [present |-> FALSE, wakeTime |-> EmptyStr, bedTime |-> EmptyStr]

\* a profile as onStart / saveProfile build it
UserA == [present |-> TRUE, wakeTime |-> TimeStr(7, 0), bedTime |-> TimeStr(9, 0)]

\* line 162
InitialSettings ==
    [darkMode |-> FALSE, remindersEnabled |-> TRUE,
     reminderIntervalMins |-> DefaultInterval,
     wakeTime |-> DefaultWake, bedTime |-> DefaultBed]

NoIds == <<>>

Range(seq) == {seq[k] : k \in 1..Len(seq)}

\* One run of the effect body (lines 182-190).  pc names the await the run
\* is suspended at; user and settings are the values the render that queued
\* the effect closed over.  ids, times and created are the locals of lines
\* 96, 121 and 136; ret is the value scheduleReminders returned.
\* cancelThrew, regThrew, permOk, alone, endStored and afterClear only
\* record what happened to the run, for the properties below.
IdleCall ==
    [pc |-> "idle", user |-> NoUser, settings |-> InitialSettings,
     ids |-> NoIds, times |-> NoSlots, created |-> NoIds, ret |-> NoIds,
     cancelThrew |-> FALSE, regThrew |-> FALSE, permOk |-> "none",
     alone |-> TRUE, endStored |-> NoIds, afterClear |-> FALSE]

Active(c) == c.pc \notin {"idle", "done"}

\* the effect is queued by the render that follows a change of its
\* dependencies (line 192) and closes over that render's user and settings
StartCall(cs, u, st) ==
    LET i == CHOOSE k \in Calls : cs[k].pc = "idle" /\ \A j \in 1..(k - 1) : cs[j].pc # "idle"
        quiet == \A j \in Calls : ~Active(cs[j])
    IN  [j \in Calls |->
            IF j = i
            THEN [IdleCall EXCEPT !.pc = "effPerm", !.user = u, !.settings = st,
                                  !.alone = quiet]
            ELSE IF Active(cs[j]) THEN [cs[j] EXCEPT !.alone = FALSE]
            ELSE cs[j]]

CanStart == \E k \in Calls : calls[k].pc = "idle"

\* the run StartCall(cs, ...) starts
FirstIdle(cs) ==
    CHOOSE k \in Calls : cs[k].pc = "idle" /\ \A j \in 1..(k - 1) : cs[j].pc # "idle"

\* registerForPushNotificationsAsync, lines 80-92: the pairs <<returned
\* value, permission status afterwards>>.  A request that is not already
\* granted is answered by the person holding the device.
RegisterForPushOutcomes ==
    IF ~isDevice THEN {<<FALSE, perm>>}
    ELSE IF perm = "granted" THEN {<<TRUE, perm>>}
    ELSE {<<TRUE, "granted">>, <<FALSE, "denied">>}

\* a return from scheduleReminders / the end of the effect body
Finish(c, ret, st) == [c EXCEPT !.pc = "done", !.ret = ret, !.endStored = st]

\* What follows the return of cancelScheduledNotificationsAndClearStorage:
\* the end of the effect (line 188), or lines 111-130 of scheduleReminders
\* up to the await of the permission request.
AfterCancel(c, st) ==
    IF ~c.settings.remindersEnabled THEN Finish(c, NoIds, st)
    ELSE IF ~c.user.present \/ ~c.settings.remindersEnabled THEN Finish(c, NoIds, st)
    ELSE [c EXCEPT !.times = PlanTimes(c.user, c.settings), !.pc = "perm"]

\* line 183: const ok = await registerForPushNotificationsAsync()
EffectPermission(i) ==
    /\ calls[i].pc = "effPerm"
    /\ \E o \in RegisterForPushOutcomes :
         /\ perm' = o[2]
         /\ calls' = [calls EXCEPT ![i].pc = "load"]
    /\ UNCHANGED <<user, settings, isDevice, registered, trigSlot, stored, clearing, pvars, ivars>>

\* line 96: const ids = await loadJson(STORAGE_KEYS.NOTIF_IDS, [])
LoadIds(i) ==
    /\ calls[i].pc = "load"
    /\ calls' = [calls EXCEPT ![i].ids = stored, ![i].pc = "cancel"]
    /\ UNCHANGED <<user, settings, isDevice, perm, registered, trigSlot, stored, clearing, pvars, ivars>>

\* lines 97-99 and the catch of line 101: every cancel is issued; the ones
\* that resolve unregister their trigger; if one rejects, Promise.all
\* rejects, the catch logs it and line 100 is skipped.
CancelAll(i) ==
    /\ calls[i].pc = "cancel"
    /\ \E failed \in SUBSET Range(calls[i].ids) :
         /\ registered' = registered \ (Range(calls[i].ids) \ failed)
         /\ calls' = [calls EXCEPT ![i] =
              IF failed = {}
              THEN [calls[i] EXCEPT !.pc = "clear"]
              ELSE AfterCancel([calls[i] EXCEPT !.cancelThrew = TRUE], stored)]
    /\ UNCHANGED <<user, settings, isDevice, perm, trigSlot, stored, clearing, pvars, ivars>>

\* line 100: await saveJson(STORAGE_KEYS.NOTIF_IDS, [])
ClearStored(i) ==
    /\ calls[i].pc = "clear"
    /\ stored' = NoIds
    /\ calls' = [calls EXCEPT ![i] = AfterCancel(calls[i], NoIds)]
    /\ UNCHANGED <<user, settings, isDevice, perm, registered, trigSlot, clearing, pvars, ivars>>

\* lines 130-136: const ok = await registerForPushNotificationsAsync()
RequestPermission(i) ==
    /\ calls[i].pc = "perm"
    /\ \E o \in RegisterForPushOutcomes :
         /\ perm' = o[2]
         /\ calls' = [calls EXCEPT ![i] =
              IF o[1]
              THEN [calls[i] EXCEPT !.permOk = "granted", !.pc = "register"]
              ELSE Finish([calls[i] EXCEPT !.permOk = "denied"], NoIds, stored)]
    /\ UNCHANGED <<user, settings, isDevice, registered, trigSlot, stored, clearing, pvars, ivars>>

\* lines 137-151, one turn of the loop: the platform registers the trigger
\* and returns a fresh identifier, or rejects, which the catch of line 155
\* turns into return [].
RegisterTrigger(i) ==
    /\ calls[i].pc = "register"
    /\ LET c == calls[i]
           tm == c.times[Len(c.created) + 1]
           id == Len(trigSlot) + 1
       IN  \/ /\ registered' = registered \cup {id}
              /\ trigSlot' = Append(trigSlot, tm)
              /\ calls' = [calls EXCEPT ![i].created = Append(c.created, id),
                                        ![i].pc = IF Len(c.created) + 1 = Len(c.times)
                                                  THEN "persist" ELSE "register"]
           \/ /\ calls' = [calls EXCEPT ![i] =
                             Finish([c EXCEPT !.regThrew = TRUE], NoIds, stored)]
              /\ UNCHANGED <<registered, trigSlot>>
    /\ UNCHANGED <<user, settings, isDevice, perm, stored, clearing, pvars, ivars>>

\* the end of scheduleReminders without the save of line 152
PersistIdsSkipsSave(i) ==
    /\ calls[i].pc = "persist"
    /\ calls' = [calls EXCEPT ![i] = Finish(calls[i], calls[i].created, stored)]
    /\ UNCHANGED <<user, settings, isDevice, perm, registered, trigSlot, stored, clearing, pvars, ivars>>

\* lines 152-154: await saveJson(STORAGE_KEYS.NOTIF_IDS, createdIds); return createdIds
PersistIds(i) ==
    /\ calls[i].pc = "persist"
    /\ stored' = calls[i].created
    /\ calls' = [calls EXCEPT ![i] = Finish(calls[i], calls[i].created, calls[i].created)]
    /\ UNCHANGED <<user, settings, isDevice, perm, registered, trigSlot, clearing, pvars, ivars>>

\* setUser(...) with a profile object (lines 171, 247, 464): a new user
\* value; the effect's dependency changed, so the next render queues the
\* effect.
SetUser(u) ==
    /\ CanStart
    /\ u.present
    /\ user' = u
    /\ calls' = StartCall(calls, u, settings)
    /\ UNCHANGED <<settings, isDevice, perm, registered, trigSlot, stored, clearing, pvars, ivars>>

\* line 542: setSettings({ ...settings, remindersEnabled: !settings.remindersEnabled })
ToggleReminders ==
    /\ CanStart
    /\ settings' = [settings EXCEPT !.remindersEnabled = ~settings.remindersEnabled]
    /\ calls' = StartCall(calls, user, settings')
    /\ UNCHANGED <<user, isDevice, perm, registered, trigSlot, stored, clearing, pvars, ivars>>

\* line 469: toggleDark = () => setSettings({ ...settings, darkMode: !settings.darkMode })
\* darkMode is not among the effect's dependencies (line 192).
ToggleDark ==
    /\ settings' = [settings EXCEPT !.darkMode = ~settings.darkMode]
    /\ UNCHANGED <<user, isDevice, perm, registered, trigSlot, stored, calls, clearing, pvars, ivars>>

\* clearAllData confirmed, line 478: await AsyncStorage.clear() removes
\* every key, STORAGE_KEYS.NOTIF_IDS among them.
ClearStorage ==
    /\ ~clearing
    /\ stored' = NoIds
    /\ clearing' = TRUE
    /\ UNCHANGED <<user, settings, isDevice, perm, registered, trigSlot, calls, pvars, ivars>>

\* lines 479-481: setIntakeLog([]); setUser(null).  The effect is queued
\* only if user changes, that is if there was a profile.
ClearState ==
    /\ clearing
    /\ user.present => CanStart
    /\ clearing' = FALSE
    /\ user' = NoUser
    /\ calls' = IF user.present
                THEN [StartCall(calls, NoUser, settings) EXCEPT ![FirstIdle(calls)].afterClear = TRUE]
                ELSE calls
    /\ intakeLog' = <<>>
    /\ added' = 0
    /\ UNCHANGED <<settings, isDevice, perm, registered, trigSlot, stored, pvars,
                   recs, today, alerts, lastOp, prevOp, nOps>>

\* The person holding the device grants or revokes the permission in the
\* system settings; lines 85-88 read whatever status results.
OsPermissionChange ==
    /\ isDevice
    /\ perm \in {"granted", "denied"}
    /\ perm' = IF perm = "granted" THEN "denied" ELSE "granted"
    /\ UNCHANGED <<user, settings, isDevice, registered, trigSlot, stored, calls, clearing, pvars, ivars>>

Users == {NoUser, UserA}

\* Mount: nothing scheduled yet, and the effect queued by the first render.
SchedInit ==
    /\ user = NoUser
    /\ settings = InitialSettings
    /\ isDevice \in BOOLEAN
    /\ perm = "undetermined"
    /\ registered = {}
    /\ trigSlot = <<>>
    /\ stored = NoIds
    /\ calls = [i \in Calls |->
                  IF i = 1 THEN [IdleCall EXCEPT !.pc = "effPerm"] ELSE IdleCall]
    /\ clearing = FALSE

PlanIdle ==
    /\ pUser = [wakeTime |-> DefaultWake, bedTime |-> DefaultBed]
    /\ pSettings = InitialSettings
    /\ pTimes = NoSlots
    /\ pDone = FALSE

(***************************************************************************)
(* The intake ledger: addIntake and resetToday (lines 194-208) and the     *)
(* handlers that call them.  intakeLog is an array of references, because  *)
(* line 197 copies the array and line 199 then writes through to the       *)
(* record object the copy shares with the array it was copied from.        *)
(***************************************************************************)
MaxDays == 2
MaxOps == 4
MaxAlerts == 2
QuickAmount == 250

Amounts == {QuickAmount, 300}

NoRecs == <<>>
NoOp == [op |-> "none", amount |-> 0, date |-> 0, hadUser |-> FALSE, fresh |-> TRUE,
         before |-> NoRecs, after |-> NoRecs]

\* the records an array of references shows
View(rs, log) == [k \in 1..Len(log) |-> rs[log[k]]]

\* cloned.findIndex(r => r.date === today); 0 stands for -1
FindIndex(rs, log, d) ==
    IF \E k \in 1..Len(log) : rs[log[k]].date = d
    THEN CHOOSE k \in 1..Len(log) :
            /\ rs[log[k]].date = d
            /\ \A j \in 1..(k - 1) : rs[log[j]].date # d
    ELSE 0

\* addIntake with line 199 assigning the amount instead of adding it
AddIntakeOverwrites(rs, log, state, usr, d, amount) ==
    IF ~usr.present THEN [recs |-> rs, intakeLog |-> state]
    ELSE LET idx == FindIndex(rs, log, d)
         IN  IF idx > 0
             THEN [recs |-> [rs EXCEPT ![log[idx]].intake = amount],
                   intakeLog |-> log]
             ELSE [recs |-> Append(rs, [date |-> d, intake |-> amount]),
                   intakeLog |-> Append(log, Len(rs) + 1)]

\* addIntake(amount), lines 194-202, run by a closure over usr and log:
\* the record objects and the intakeLog state it leaves.
AddIntake(rs, log, state, usr, d, amount) ==
    IF ~usr.present THEN [recs |-> rs, intakeLog |-> state]
    ELSE LET idx == FindIndex(rs, log, d)
         IN  IF idx > 0
             THEN [recs |-> [rs EXCEPT ![log[idx]].intake = @ + amount],
                   intakeLog |-> log]
             ELSE [recs |-> Append(rs, [date |-> d, intake |-> amount]),
                   intakeLog |-> Append(log, Len(rs) + 1)]

\* intakeLog.filter(r => r.date !== today)
RECURSIVE FilterOtherDates(_, _, _)
FilterOtherDates(rs, log, d) ==
    IF log = <<>> THEN <<>>
    ELSE IF rs[Head(log)].date # d
         THEN <<Head(log)>> \o FilterOtherDates(rs, Tail(log), d)
         ELSE FilterOtherDates(rs, Tail(log), d)

\* resetToday emptying the whole log
ResetTodayDropsAll(rs, log, d) == <<>>

\* resetToday(), lines 204-208, run by a closure over log
ResetTodayLog(rs, log, d) == FilterOtherDates(rs, log, d)

OpsLeft == nOps < MaxOps

Record(op, amount, log, r) ==
    [op |-> op, amount |-> amount, date |-> today, hadUser |-> user.present,
     fresh |-> (log = intakeLog),
     before |-> View(recs, intakeLog), after |-> View(r.recs, r.intakeLog)]

\* the call addIntake(amount) made by a closure over log
CallAddIntake(amount, log) ==
    LET r == AddIntake(recs, log, intakeLog, user, today, amount)
    IN  /\ recs' = r.recs
        /\ intakeLog' = r.intakeLog
        /\ prevOp' = lastOp
        /\ lastOp' = Record("add", amount, log, r)
        /\ nOps' = nOps + 1
        /\ added' = IF user.present THEN added + amount ELSE added

\* handleAdd, lines 305-317: addIntake(n) for a positive n, from the
\* current render
HandleAdd(n) ==
    /\ OpsLeft
    /\ CallAddIntake(n, intakeLog)
    /\ UNCHANGED <<today, alerts, pvars, svars>>

\* lines 352-354: the Quick button opens an alert whose Add button holds
\* the addIntake of the render that opened it
OpenQuickAdd ==
    /\ OpsLeft
    /\ Len(alerts) < MaxAlerts
    /\ alerts' = Append(alerts, intakeLog)
    /\ UNCHANGED <<intakeLog, recs, today, lastOp, prevOp, nOps, added, pvars, svars>>

RemoveAt(seq, k) == SubSeq(seq, 1, k - 1) \o SubSeq(seq, k + 1, Len(seq))

\* line 353: { text: 'Add', onPress: () => addIntake(250) }
PressQuickAdd(k) ==
    /\ OpsLeft
    /\ k \in 1..Len(alerts)
    /\ CallAddIntake(QuickAmount, alerts[k])
    /\ alerts' = RemoveAt(alerts, k)
    /\ UNCHANGED <<today, pvars, svars>>

\* line 353: { text: 'Cancel' }
DismissQuickAdd(k) ==
    /\ k \in 1..Len(alerts)
    /\ alerts' = RemoveAt(alerts, k)
    /\ UNCHANGED <<intakeLog, recs, today, lastOp, prevOp, nOps, added, pvars, svars>>

\* line 554: onPress={resetToday}, from the current render
ResetToday ==
    /\ OpsLeft
    /\ LET log == ResetTodayLog(recs, intakeLog, today)
       IN  /\ intakeLog' = log
           /\ prevOp' = lastOp
           /\ lastOp' = Record("reset", 0, intakeLog, [recs |-> recs, intakeLog |-> log])
           /\ nOps' = nOps + 1
           /\ added' = 0
    /\ UNCHANGED <<recs, today, alerts, pvars, svars>>

\* midnight passes: formatDate() (line 29) returns the next date
NextDay ==
    /\ today < MaxDays
    /\ today' = today + 1
    /\ added' = 0
    /\ UNCHANGED <<intakeLog, recs, alerts, lastOp, prevOp, nOps, pvars, svars>>

IntakeIdle ==
    /\ intakeLog = <<>>
    /\ recs = NoRecs
    /\ today = 1
    /\ alerts = <<>>
    /\ lastOp = NoOp
    /\ prevOp = NoOp
    /\ nOps = 0
    /\ added = 0

\* The provider with or without a profile and an empty log.
IntakeInit ==
    /\ IntakeIdle
    /\ PlanIdle
    /\ user \in Users
    /\ settings = InitialSettings
    /\ isDevice = TRUE
    /\ perm = "undetermined"
    /\ registered = {}
    /\ trigSlot = <<>>
    /\ stored = NoIds
    /\ calls = [i \in Calls |-> IdleCall]
    /\ clearing = FALSE

IntakeNext ==
    \/ \E n \in Amounts : HandleAdd(n)
    \/ OpenQuickAdd
    \/ \E k \in 1..MaxAlerts : PressQuickAdd(k)
    \/ \E k \in 1..MaxAlerts : DismissQuickAdd(k)
    \/ ResetToday
    \/ NextDay

SpecIntake == IntakeInit /\ [][IntakeNext]_vars

Init == SchedInit /\ PlanIdle /\ IntakeIdle

Next ==
    \/ \E i \in Calls : EffectPermission(i)
    \/ \E i \in Calls : LoadIds(i)
    \/ \E i \in Calls : CancelAll(i)
    \/ \E i \in Calls : ClearStored(i)
    \/ \E i \in Calls : RequestPermission(i)
    \/ \E i \in Calls : RegisterTrigger(i)
    \/ \E i \in Calls : PersistIds(i)
    \/ \E u \in Users : SetUser(u)
    \/ ToggleReminders
    \/ ToggleDark
    \/ ClearStorage
    \/ ClearState
    \/ OsPermissionChange

Spec == Init /\ [][Next]_vars

\* SpecOverlap: the effect runs alone, queued by changes of user and of the
\* Reminders switch, in every interleaving of their awaits.
OverlapNext ==
    \/ \E i \in Calls : EffectPermission(i)
    \/ \E i \in Calls : LoadIds(i)
    \/ \E i \in Calls : CancelAll(i)
    \/ \E i \in Calls : ClearStored(i)
    \/ \E i \in Calls : RequestPermission(i)
    \/ \E i \in Calls : RegisterTrigger(i)
    \/ \E i \in Calls : PersistIds(i)
    \/ \E u \in Users : SetUser(u)
    \/ ToggleReminders

SpecOverlap == Init /\ [][OverlapNext]_vars

(***************************************************************************)
(* SpecPlan: the slot computation on bounded inputs.                       *)
(***************************************************************************)
MinuteStep == 30

PlanHours == 0..23
PlanMinutes == {m \in 0..59 : m % MinuteStep = 0}
PlanTimeTexts == {TimeStr(h, m) : h \in PlanHours, m \in PlanMinutes}
PlanIntervals == {Absent, 0, 5, 14, 15, 45, 120, 180, 1440}

PlanInit ==
    /\ pUser \in [wakeTime : PlanTimeTexts, bedTime : PlanTimeTexts]
    /\ pSettings \in [darkMode : {FALSE}, remindersEnabled : {TRUE},
                      reminderIntervalMins : PlanIntervals,
                      wakeTime : {DefaultWake}, bedTime : {DefaultBed}]
    /\ pTimes = NoSlots
    /\ pDone = FALSE
    /\ SchedInit
    /\ isDevice = TRUE
    /\ IntakeIdle

Plan ==
    /\ ~pDone
    /\ pTimes' = PlanTimes(pUser, pSettings)
    /\ pDone' = TRUE
    /\ UNCHANGED <<pUser, pSettings, svars, ivars>>

PlanNext == Plan

SpecPlan == PlanInit /\ [][PlanNext]_vars

(***************************************************************************)
(* The planner claims read the clock times off the text directly:          *)
(* HH and MM are the two-digit fields of "HH:MM".                          *)
(***************************************************************************)
ClockHour(text) == 10 * DigitVal(text[1]) + DigitVal(text[2])
ClockMinute(text) == 10 * DigitVal(text[4]) + DigitVal(text[5])
ClockMinutes(text) == 60 * ClockHour(text) + ClockMinute(text)

ClaimWake == ClockMinutes(pUser.wakeTime)
ClaimBedNormalized ==
    IF ClockMinutes(pUser.bedTime) <= ClaimWake
    THEN ClockMinutes(pUser.bedTime) + DayMinutes
    ELSE ClockMinutes(pUser.bedTime)

\* The interval handed to the planner is a valid one (the setting is >= 15).
ValidInterval == pSettings.reminderIntervalMins >= MinInterval

\* C4: for every valid wake time, bed time and interval the planned slot
\* list is non-empty and has floor((bedMinutesNormalized - wakeMinutes) /
\* interval) + 1 slots, wakeMinutes and bedMinutes being 60*HH + MM of the
\* given times.
C4_SlotCount ==
    (pDone /\ ValidInterval) =>
        /\ Len(pTimes) >= 1
        /\ Len(pTimes) =
             ((ClaimBedNormalized - ClaimWake) \div pSettings.reminderIntervalMins) + 1

\* C5: the k-th planned slot is the hour:minute of (wakeMinutes + k*interval)
\* mod 1440, wakeMinutes being 60*HH + MM of the given wake time; the first
\* slot is the wake time itself; plan(07:00, 23:00, 120) is the 9 slots
\* 07:00, 09:00, ..., 23:00 and plan(22:00, 06:00, 180) is 22:00, 01:00, 04:00.
ClaimSlot(k) ==
    LET t == (ClaimWake + k * pSettings.reminderIntervalMins) % DayMinutes
    IN  [hour |-> t \div 60, minute |-> t % 60]

C5_SlotValues ==
    (pDone /\ ValidInterval) =>
        /\ \A k \in 0..(Len(pTimes) - 1) : pTimes[k + 1] = ClaimSlot(k)
        /\ Len(pTimes) >= 1
        /\ pTimes[1] = [hour |-> ClockHour(pUser.wakeTime),
                        minute |-> ClockMinute(pUser.wakeTime)]
        /\ (/\ pUser.wakeTime = TimeStr(7, 0)
            /\ pUser.bedTime = TimeStr(23, 0)
            /\ pSettings.reminderIntervalMins = 120)
           => pTimes = [k \in 1..9 |-> [hour |-> 5 + 2 * k, minute |-> 0]]
        /\ (/\ pUser.wakeTime = TimeStr(22, 0)
            /\ pUser.bedTime = TimeStr(6, 0)
            /\ pSettings.reminderIntervalMins = 180)
           => pTimes = <<[hour |-> 22, minute |-> 0], [hour |-> 1, minute |-> 0],
                         [hour |-> 4, minute |-> 0]>>

\* C6: for every wake time, bed time and every reminderIntervalMins in 0..14
\* the planned slots are the slots planned with reminderIntervalMins = 15.
C6_ClampBelow15 ==
    (pDone /\ pSettings.reminderIntervalMins \in 0..14) =>
        pTimes = PlanTimes(pUser, [pSettings EXCEPT !.reminderIntervalMins = MinInterval])

\* The same three statements away from the inputs the code mistreats: an
\* hour field of 00 (read as the default hour) and an interval of 0 (read
\* as missing).
HourFieldsNonZero == ClockHour(pUser.wakeTime) # 0 /\ ClockHour(pUser.bedTime) # 0

SlotCountNonZeroHours == HourFieldsNonZero => C4_SlotCount
SlotValuesNonZeroHours == HourFieldsNonZero => C5_SlotValues
ClampFrom1To14 == pSettings.reminderIntervalMins # 0 => C6_ClampBelow15

\* C17: for every valid wake time, bed time and interval (bed time equal to
\* wake time included), no two slots of one plan have the same hour and
\* minute.
C17_SlotsDistinct ==
    pDone => \A i, j \in 1..Len(pTimes) : pTimes[i] = pTimes[j] => i = j

\* the same for plans whose bed time differs from the wake time, hour
\* fields 01..23
SlotsDistinctUnlessEqual ==
    (HourFieldsNonZero /\ pUser.wakeTime # pUser.bedTime) => C17_SlotsDistinct

(***************************************************************************)
(* The scheduler claims.                                                   *)
(***************************************************************************)
\* no run of the effect is in progress
Quiescent == \A i \in Calls : ~Active(calls[i])

\* every run so far started after the runs before it had returned
Sequential == \A i \in Calls : calls[i].alone

\* run i went through scheduleReminders with a user and reminders enabled
Scheduling(i) == calls[i].user.present /\ calls[i].settings.remindersEnabled

\* Clear All Data has wiped the store: it is between its two steps, or the
\* run it queued has started
Wiped == clearing \/ \E i \in Calls : calls[i].afterClear

\* C1: in every state reached by a sequence of completed, non-overlapping
\* scheduleReminders / cancelScheduledNotificationsAndClearStorage calls the
\* list persisted under NOTIF_IDS is exactly the set of registered triggers.
C1_StoredMirrorsRegistered ==
    (Quiescent /\ Sequential /\ ~Wiped) => Range(stored) = registered

\* C2: two scheduleReminders calls in succession (the second starting after
\* the first returned), with a user, reminders enabled and permission
\* granted: afterwards the persisted list is the identifiers registered by
\* the second call, every trigger of the first call is cancelled and no
\* identifier of the first call is persisted.
C2_SecondCallReplacesFirst ==
    \A i \in 1..(MaxCalls - 1) :
        (/\ calls[i].pc = "done" /\ calls[i + 1].pc = "done"
         /\ Sequential
         /\ i + 2 <= MaxCalls => calls[i + 2].pc = "idle"
         /\ Scheduling(i) /\ Scheduling(i + 1)
         /\ calls[i].permOk = "granted" /\ calls[i + 1].permOk = "granted")
        => /\ stored = calls[i + 1].created
           /\ Range(calls[i].created) \cap registered = {}
           /\ Range(calls[i].created) \cap Range(stored) = {}

\* C3: whenever the reschedule routine runs with remindersEnabled = false
\* the persisted list is empty when it finishes, whatever the list held
\* before and whatever the outcome of the cancel calls.
C3_DisabledLeavesStoredEmpty ==
    \A i \in Calls :
        (calls[i].pc = "done" /\ Sequential /\ ~calls[i].settings.remindersEnabled)
        => calls[i].endStored = NoIds

\* C7: when a trigger registration throws after j triggers were registered
\* in the same call, the call returns exactly the j identifiers collected.
C7_PartialResultReturned ==
    \A i \in Calls :
        (calls[i].pc = "done" /\ calls[i].regThrew) => calls[i].ret = calls[i].created

\* C8: when permission is denied (or the device is not a physical device) a
\* scheduleReminders call with a user and reminders enabled registers no
\* trigger, leaves the persisted list empty and returns the empty list.
C8_DeniedLeavesNothing ==
    \A i \in Calls :
        (/\ calls[i].pc = "done" /\ Sequential
         /\ Scheduling(i) /\ calls[i].permOk = "denied")
        => /\ calls[i].created = NoIds
           /\ calls[i].endStored = NoIds
           /\ calls[i].ret = NoIds

\* no cancel and no registration was rejected in any run so far
NoRejection == \A i \in Calls : ~calls[i].cancelThrew /\ ~calls[i].regThrew

\* run i is the latest run started
Latest(i) == calls[i].pc # "idle" /\ \A j \in (i + 1)..MaxCalls : calls[j].pc = "idle"

\* C16: after Clear All Data (storage cleared, log emptied, user null) and
\* the reschedule it causes have completed, no recurring trigger registered
\* by an earlier scheduleReminders call remains registered.
C16_ClearRemovesTriggers ==
    \A i \in Calls :
        (/\ calls[i].afterClear /\ calls[i].pc = "done" /\ Latest(i)
         /\ ~clearing /\ Sequential /\ NoRejection)
        => \A j \in 1..(i - 1) : Range(calls[j].created) \cap registered = {}

\* the order of the steps inside run i, as far as it has got
StrictOrder(i) ==
    /\ calls[i].pc \in {"perm", "register", "persist"} => stored = NoIds
    /\ calls[i].pc = "register" => Range(calls[i].ids) \cap registered = {}
    /\ calls[i].pc = "persist" => Len(calls[i].created) = Len(calls[i].times)
    /\ calls[i].created # NoIds => calls[i].pc \in {"register", "persist", "done"}

\* C12: within one scheduleReminders invocation no new trigger is
\* registered until every previously persisted identifier has been
\* cancelled and the empty list persisted, and the new list is persisted
\* only after the last trigger is registered; so when any registration
\* starts the persisted list is empty.
C12_StrictOrder ==
    Sequential => \A i \in Calls : StrictOrder(i)

\* the same for runs in which no cancel was rejected
StrictOrderUnlessRejected ==
    Sequential => \A i \in Calls : ~calls[i].cancelThrew => StrictOrder(i)

\* C13: every failure inside scheduleReminders degrades to "no reminders
\* scheduled": the call returns, and when it returns after a failure no
\* recurring trigger is registered with the platform.
C13_FailureLeavesNothing ==
    \A i \in Calls :
        (/\ calls[i].pc = "done" /\ Latest(i)
         /\ calls[i].settings.remindersEnabled
         /\ calls[i].cancelThrew \/ calls[i].regThrew
         /\ Sequential /\ ~Wiped)
        => registered = {}

\* the persisted list and the registered triggers differ
Mismatch == Range(stored) # registered

\* C14: two overlapping scheduleReminders invocations can interleave and
\* end, after both have returned, with a registered trigger that no
\* persisted list names; when no cancel or registration was rejected and
\* the store was not wiped, the persisted list and the registered triggers
\* differ after all runs returned only if runs overlapped.
C14_MismatchOnlyByOverlap ==
    (Quiescent /\ NoRejection /\ ~Wiped /\ Mismatch) => ~Sequential

\* two runs with a profile and reminders enabled overlapped, both have
\* returned without any rejection, and a registered trigger is in no
\* persisted list
C14_Witness ==
    /\ Quiescent /\ NoRejection /\ ~Wiped
    /\ \E i, j \in Calls :
          /\ i < j
          /\ calls[i].pc = "done" /\ calls[j].pc = "done"
          /\ ~calls[i].alone /\ ~calls[j].alone
          /\ Scheduling(i) /\ Scheduling(j)
          /\ calls[i].created # NoIds /\ calls[j].created # NoIds
    /\ \E id \in registered : id \notin Range(stored)

\* the effect's dependencies (line 192)
Deps(u, st) ==
    <<u, st.remindersEnabled, st.reminderIntervalMins, st.wakeTime, st.bedTime>>

\* how many runs of the effect have started
Started(cs) == Cardinality({i \in Calls : cs[i].pc # "idle"})

\* a step that changes a dependency queues a run closed over the new values
ChangeStartsRun ==
    Deps(user, settings) # Deps(user', settings') =>
        /\ Started(calls') = Started(calls) + 1
        /\ \E i \in Calls :
              /\ calls[i].pc = "idle" /\ calls'[i].pc = "effPerm"
              /\ calls'[i].user = user' /\ calls'[i].settings = settings'

\* a step that changes darkMode and no dependency queues no run
DarkModeStartsNone ==
    (settings'.darkMode # settings.darkMode /\ Deps(user, settings) = Deps(user', settings'))
        => calls' = calls

\* the slots to be planned for the current user and settings
PlannedNow ==
    IF user.present /\ settings.remindersEnabled THEN PlanTimes(user, settings) ELSE NoSlots

\* the registered triggers are exactly one per planned slot
RegisteredIsPlan ==
    /\ Cardinality(registered) = Len(PlannedNow)
    /\ {trigSlot[id] : id \in registered} = Range(PlannedNow)

\* every run has returned, none met a rejection or a denied permission, and
\* Clear All Data was not used
Settled ==
    /\ Quiescent /\ NoRejection /\ ~Wiped
    /\ \A i \in Calls : Scheduling(i) => calls[i].permOk = "granted"

SettledMatchesPlan == Settled => RegisteredIsPlan

\* C15: every change of user, remindersEnabled, reminderIntervalMins,
\* wakeTime or bedTime starts a reschedule, a change of darkMode alone starts
\* none, and once the changes have stopped and every started reschedule has
\* finished (permission granted, no failures) the registered triggers are
\* exactly the planned slots for the latest user and settings.
C15_ReschedulesToLatest ==
    /\ [][ChangeStartsRun /\ DarkModeStartsNone]_vars
    /\ []SettledMatchesPlan

\* the parts of it that concern the start of a run
StartsFollowDeps == [][ChangeStartsRun /\ DarkModeStartsNone]_vars

\* the settled part for runs that never overlapped
SettledMatchesPlanSequential == (Settled /\ Sequential) => RegisteredIsPlan

(***************************************************************************)
(* The ledger claims.                                                      *)
(***************************************************************************)
\* the records of a log for dates other than d, in order
OtherDates(view, d) == SelectSeq(view, LAMBDA r : r.date # d)

\* the records of a log for date d
OnDate(view, d) == SelectSeq(view, LAMBDA r : r.date = d)

\* the intake a log shows for date d, 0 if it has no record for d
IntakeOn(view, d) == IF OnDate(view, d) = <<>> THEN 0 ELSE OnDate(view, d)[1].intake

\* The last two ledger calls were addIntake(a) then addIntake(b), on one
\* date, with a profile present, each made from the render of the state it
\* found (the second sees the log the first left).
TwoAddsInARow ==
    /\ prevOp.op = "add" /\ lastOp.op = "add"
    /\ prevOp.hadUser /\ lastOp.hadUser
    /\ prevOp.date = lastOp.date
    /\ prevOp.fresh /\ lastOp.fresh

C10_ResetRemovesToday ==
    lastOp.op = "reset" =>
        /\ OnDate(lastOp.after, lastOp.date) = <<>>
        /\ lastOp.after = OtherDates(lastOp.before, lastOp.date)
        /\ OtherDates(lastOp.after, lastOp.date) = OtherDates(lastOp.before, lastOp.date)

\* a reset of a day that had a record, in a log that holds another day too
C10_Witness ==
    /\ lastOp.op = "reset"
    /\ OnDate(lastOp.before, lastOp.date) # <<>>
    /\ OtherDates(lastOp.before, lastOp.date) # <<>>

\* no date has two records in the log
OneRecordPerDate(view) ==
    \A i, j \in 1..Len(view) : view[i].date = view[j].date => i = j

\* C11: after any sequence of addIntake and resetToday calls from an empty
\* log, calls made by closures over a not-yet-updated intakeLog included,
\* the log has at most one record per date and today's intake equals the
\* sum of the amounts added today since the last resetToday.
C11_LogSumsEveryAdd ==
    /\ OneRecordPerDate(View(recs, intakeLog))
    /\ IntakeOn(View(recs, intakeLog), today) = added

====
